---- MODULE Spec2Model ----
(***************************************************************************)
(* AndroidAirplaneIPChanger: a facade over the adb executable that rotates *)
(* a phone's public IP by toggling airplane mode.                          *)
(*                                                                         *)
(* Strings the code parses are sequences of one-character strings, so that *)
(* str.find, slicing, removeprefix and splitlines are computed character   *)
(* by character as Python computes them.  The HTTP body that json.loads    *)
(* decodes is a sequence of JSON tokens.                                   *)
(***************************************************************************)
EXTENDS Integers, Sequences, FiniteSets, TLC

VARIABLES
    current_device,  \* self.current_device: None (<<>>) or <<Device>>
    attached,        \* environment: the text `adb devices -l` prints
    op,              \* name of the last method called ("init" after __init__)
    args,            \* arguments of the last call
    exc,             \* exception the last call raised (NoExc if it returned)
    ret,             \* value the last call returned
    calls            \* subprocess.run / time.sleep calls of the last call, in order

vars == <<current_device, attached, op, args, exc, ret, calls>>

(***************************************************************************)
(* Bounds of the model.                                                    *)
(***************************************************************************)
MaxStdout == 6       \* characters of `adb devices -l` output after the header
MaxFields == 2       \* members of the JSON object the IP service answers

(***************************************************************************)
(* Python values.                                                          *)
(***************************************************************************)
None == <<>>
Some(x) == <<x>>
PyNone == "None"
Self == "self"

NoExc == [type |-> "", msg |-> ""]
Raise(type, msg) == [type |-> type, msg |-> msg]

\* What a method call did: the exception it raised (or NoExc), the value it
\* returned, the subprocess/sleep calls it made, and self.current_device after.
Result(e, r, cs, cur) == [exc |-> e, ret |-> r, calls |-> cs, cur |-> cur]

Device(device, id) == [device |-> device, id |-> id]

Max(a, b) == IF a >= b THEN a ELSE b
Min(a, b) == IF a <= b THEN a ELSE b

\* str.find(c, start): lowest 0-based index >= start holding c, else -1.
\* A negative start counts from the end.
PyFind(s, c, start) ==
    LET st == IF start < 0 THEN Max(Len(s) + start, 0) ELSE start
        hits == {i \in st..(Len(s) - 1) : s[i + 1] = c}
    IN  IF hits = {} THEN -1 ELSE CHOOSE i \in hits : \A j \in hits : i <= j

\* s[lo:hi] with Python's treatment of negative and out-of-range indices.
PySlice(s, lo, hi) ==
    LET l == Min(IF lo < 0 THEN Max(Len(s) + lo, 0) ELSE lo, Len(s))
        h == Min(IF hi < 0 THEN Max(Len(s) + hi, 0) ELSE hi, Len(s))
    IN  IF l >= h THEN <<>> ELSE SubSeq(s, l + 1, h)

\* s[lo:]
PySliceFrom(s, lo) == PySlice(s, lo, Len(s))

\* str.removeprefix
RemovePrefix(s, p) ==
    IF Len(s) >= Len(p) /\ SubSeq(s, 1, Len(p)) = p
    THEN SubSeq(s, Len(p) + 1, Len(s))
    ELSE s

\* str.splitlines, for text whose only line boundary is "\n": a final
\* newline does not open another line.
RECURSIVE SplitLines(_)
SplitLines(s) ==
    IF s = <<>> THEN <<>>
    ELSE LET nl == PyFind(s, "\n", 0)
         IN  IF nl = -1 THEN <<s>>
             ELSE <<PySlice(s, 0, nl)>> \o SplitLines(PySliceFrom(s, nl + 1))

HEADER ==
    <<"L", "i", "s", "t", " ", "o", "f", " ", "d", "e", "v", "i", "c", "e", "s",
      " ", "a", "t", "t", "a", "c", "h", "e", "d", "\n">>

(***************************************************************************)
(* subprocess.run and time.sleep, as entries of `calls`.                   *)
(***************************************************************************)
\* subprocess.run([adb, "-s", serial, *argv]) with what the process answered.
Run(serial, argv, stdout, rc) ==
    [kind |-> "run", serial |-> serial, argv |-> argv, secs |-> 0,
     stdout |-> stdout, rc |-> rc]

Sleep(secs) ==
    [kind |-> "sleep", serial |-> None, argv |-> <<>>, secs |-> secs,
     stdout |-> <<>>, rc |-> 0]

DEVICES_ARGV == <<"devices", "-l">>

(***************************************************************************)
(* list_devices, set_device, get_device, set_default_device                *)
(***************************************************************************)
\* ParseLine with the device put at the front of the list (ids.insert(0, ...)).
ParseLine_prepend(ids, line) ==
    LET id == PySlice(line, 0, PyFind(line, " ", 0))
        delimeter_pos == PyFind(line, ":", 0)
        device == PySlice(line, delimeter_pos + 1, PyFind(line, " ", delimeter_pos))
    IN  IF id = <<>> THEN ids ELSE <<Device(device, id)>> \o ids

\* The body of the loop of list_devices for one line: the devices so far,
\* with the line's device appended unless its id is empty.
ParseLine(ids, line) ==
    LET id == PySlice(line, 0, PyFind(line, " ", 0))
        delimeter_pos == PyFind(line, ":", 0)
        device == PySlice(line, delimeter_pos + 1, PyFind(line, " ", delimeter_pos))
    IN  IF id = <<>> THEN ids ELSE Append(ids, Device(device, id))

RECURSIVE ParseLines(_, _)
ParseLines(ids, lines) ==
    IF lines = <<>> THEN ids
    ELSE ParseLines(ParseLine(ids, Head(lines)), Tail(lines))

list_devices(cd, stdout) ==
    Result(NoExc,
           ParseLines(<<>>, SplitLines(RemovePrefix(stdout, HEADER))),
           <<Run(None, DEVICES_ARGV, stdout, 0)>>,
           cd)

set_device(cd, device) == Result(NoExc, Self, <<>>, Some(device))

get_device(cd) == Result(NoExc, cd, <<>>, cd)

\* set_default_device selecting the last device (devices[-1]).
set_default_device_last(cd, stdout) ==
    LET l == list_devices(cd, stdout)
        devices == l.ret
    IN  IF devices = <<>>
        THEN Result(Raise("ValueError", "Devices not connected!"), PyNone, l.calls, cd)
        ELSE Result(NoExc, Self, l.calls, Some(devices[Len(devices)]))

\* set_default_device forgetting the selection when no device is connected.
set_default_device_reset(cd, stdout) ==
    LET l == list_devices(cd, stdout)
        devices == l.ret
    IN  IF devices = <<>>
        THEN Result(Raise("ValueError", "Devices not connected!"), PyNone, l.calls, None)
        ELSE Result(NoExc, Self, l.calls, Some(devices[1]))

set_default_device(cd, stdout) ==
    LET l == list_devices(cd, stdout)
        devices == l.ret
    IN  IF devices = <<>>
        THEN Result(Raise("ValueError", "Devices not connected!"), PyNone, l.calls, cd)
        ELSE Result(NoExc, Self, l.calls, Some(devices[1]))

(***************************************************************************)
(* JSON: the values json.loads produces and the decoder, over tokens.      *)
(* A token is one of { } : , or else a string literal.                     *)
(***************************************************************************)
EmptyDict == [k \in {} |-> 0]

\* A decoded str, and a decoded dict (a function from its keys).
JStr(s) == [kind |-> "str", s |-> s, items |-> EmptyDict]
JObj(items) == [kind |-> "obj", s |-> "", items |-> items]

Punctuation == {"{", "}", ":", ","}
IsStringToken(t) == t \notin Punctuation

\* dict[key] = value: a later duplicate key overwrites the earlier one.
DictSet(d, key, value) ==
    [k \in DOMAIN d \cup {key} |-> IF k = key THEN value ELSE d[k]]

ParseFail == [ok |-> FALSE, val |-> JStr(""), rest |-> <<>>]
ParseOk(v, rest) == [ok |-> TRUE, val |-> v, rest |-> rest]

RECURSIVE ParseValue(_), ParseMembers(_, _)
\* One JSON value at the head of ts, and the tokens after it.
ParseValue(ts) ==
    IF ts = <<>> THEN ParseFail
    ELSE IF IsStringToken(Head(ts)) THEN ParseOk(JStr(Head(ts)), Tail(ts))
    ELSE IF Head(ts) # "{" THEN ParseFail
    ELSE IF Len(ts) >= 2 /\ ts[2] = "}" THEN ParseOk(JObj(EmptyDict), SubSeq(ts, 3, Len(ts)))
    ELSE ParseMembers(Tail(ts), EmptyDict)

\* The members of an object after "{" or ",": key ":" value, then "," or "}".
ParseMembers(ts, d) ==
    IF Len(ts) < 2 \/ ~IsStringToken(ts[1]) \/ ts[2] # ":" THEN ParseFail
    ELSE LET v == ParseValue(SubSeq(ts, 3, Len(ts)))
         IN  IF ~v.ok \/ v.rest = <<>> THEN ParseFail
             ELSE IF Head(v.rest) = "}"
                  THEN ParseOk(JObj(DictSet(d, ts[1], v.val)), Tail(v.rest))
             ELSE IF Head(v.rest) = ","
                  THEN ParseMembers(Tail(v.rest), DictSet(d, ts[1], v.val))
             ELSE ParseFail

\* json.loads: the whole text must be one value.
json_loads(body) ==
    LET r == ParseValue(body)
    IN  IF r.ok /\ r.rest = <<>>
        THEN [exc |-> NoExc, val |-> r.val]
        ELSE [exc |-> Raise("JSONDecodeError", ""), val |-> JStr("")]

\* ip_json['query']
Subscript(v, key) ==
    IF v.kind # "obj"
    THEN [exc |-> Raise("TypeError", "string indices must be integers"), val |-> JStr("")]
    ELSE IF key \notin DOMAIN v.items
    THEN [exc |-> Raise("KeyError", key), val |-> JStr("")]
    ELSE [exc |-> NoExc, val |-> v.items[key]]

(***************************************************************************)
(* The device-scoped methods.                                              *)
(***************************************************************************)
NeedDevice == Raise("ValueError", "Need init current device!")
NoInternet == Raise("RuntimeError", "Internet on mobile don't work!")

AIRPLANE_ARGV == <<"shell", "cmd", "connectivity", "airplane-mode">>
ENABLE_ARGV == <<"shell", "cmd", "connectivity", "airplane-mode", "enable">>
DISABLE_ARGV == <<"shell", "cmd", "connectivity", "airplane-mode", "disable">>
PING_ARGV == <<"shell", "ping", "-c", "4", "-w", "10", "www.google.com">>
CURL_ARGV == <<"shell", "curl", "-s", "ip-api.com/json/">>
ForwardArgv(port_from, port_to) == <<"forward", "tcp:", port_from, "tcp:", port_to>>

SETTLE_DELAY == 5
RECONNECT_DELAY == 10

\* self.current_device.id of a set current_device
SerialOf(cd) == Some(cd[1].id)

check_airplane_mode(cd, stdout) ==
    IF cd = None THEN Result(NeedDevice, PyNone, <<>>, cd)
    ELSE Result(NoExc, stdout = <<"Enable">>,
                <<Run(SerialOf(cd), AIRPLANE_ARGV, stdout, 0)>>, cd)

\* enable_airplane_mode sending the command of disable_airplane_mode.
enable_airplane_mode_sends_disable(cd) ==
    IF cd = None THEN Result(NeedDevice, PyNone, <<>>, cd)
    ELSE Result(NoExc, PyNone, <<Run(SerialOf(cd), DISABLE_ARGV, <<>>, 0)>>, cd)

enable_airplane_mode(cd) ==
    IF cd = None THEN Result(NeedDevice, PyNone, <<>>, cd)
    ELSE Result(NoExc, PyNone, <<Run(SerialOf(cd), ENABLE_ARGV, <<>>, 0)>>, cd)

\* disable_airplane_mode sending the command of enable_airplane_mode.
disable_airplane_mode_sends_enable(cd) ==
    IF cd = None THEN Result(NeedDevice, PyNone, <<>>, cd)
    ELSE Result(NoExc, PyNone, <<Run(SerialOf(cd), ENABLE_ARGV, <<>>, 0)>>, cd)

disable_airplane_mode(cd) ==
    IF cd = None THEN Result(NeedDevice, PyNone, <<>>, cd)
    ELSE Result(NoExc, PyNone, <<Run(SerialOf(cd), DISABLE_ARGV, <<>>, 0)>>, cd)

\* ping reporting success whatever the exit status.
ping_always_true(cd, returncode) ==
    IF cd = None THEN Result(NeedDevice, PyNone, <<>>, cd)
    ELSE Result(NoExc, TRUE,
                <<Run(SerialOf(cd), PING_ARGV, <<>>, returncode)>>, cd)

ping(cd, returncode) ==
    IF cd = None THEN Result(NeedDevice, PyNone, <<>>, cd)
    ELSE Result(NoExc, returncode = 0,
                <<Run(SerialOf(cd), PING_ARGV, <<>>, returncode)>>, cd)

\* get_current_ip returning the whole record whatever `location` is.
get_current_ip_whole_record(cd, location, body) ==
    IF cd = None THEN Result(NeedDevice, PyNone, <<>>, cd)
    ELSE LET run == <<Run(SerialOf(cd), CURL_ARGV, body, 0)>>
             ip_json == json_loads(body)
         IN  IF ip_json.exc # NoExc THEN Result(ip_json.exc, PyNone, run, cd)
             ELSE Result(NoExc, ip_json.val, run, cd)

\* get_current_ip reading ip_json['query'] before it looks at `location`.
get_current_ip_reads_query_first(cd, location, body) ==
    IF cd = None THEN Result(NeedDevice, PyNone, <<>>, cd)
    ELSE LET run == <<Run(SerialOf(cd), CURL_ARGV, body, 0)>>
             ip_json == json_loads(body)
             query == Subscript(ip_json.val, "query")
         IN  IF ip_json.exc # NoExc THEN Result(ip_json.exc, PyNone, run, cd)
             ELSE IF query.exc # NoExc THEN Result(query.exc, PyNone, run, cd)
             ELSE IF location THEN Result(NoExc, ip_json.val, run, cd)
             ELSE Result(NoExc, query.val, run, cd)

get_current_ip(cd, location, body) ==
    IF cd = None THEN Result(NeedDevice, PyNone, <<>>, cd)
    ELSE LET run == <<Run(SerialOf(cd), CURL_ARGV, body, 0)>>
             ip_json == json_loads(body)
             query == Subscript(ip_json.val, "query")
         IN  IF ip_json.exc # NoExc THEN Result(ip_json.exc, PyNone, run, cd)
             ELSE IF location THEN Result(NoExc, ip_json.val, run, cd)
             ELSE IF query.exc # NoExc THEN Result(query.exc, PyNone, run, cd)
             ELSE Result(NoExc, query.val, run, cd)

\* port_forward without the check of current_device: the subprocess is started
\* with whatever serial there is.
port_forward_unguarded(cd, port_from, port_to) ==
    Result(NoExc, PyNone,
           <<Run(IF cd = None THEN None ELSE SerialOf(cd),
                 ForwardArgv(port_from, port_to), <<>>, 0)>>, cd)

port_forward(cd, port_from, port_to) ==
    IF cd = None THEN Result(NeedDevice, PyNone, <<>>, cd)
    ELSE Result(NoExc, PyNone,
                <<Run(SerialOf(cd), ForwardArgv(port_from, port_to), <<>>, 0)>>, cd)

\* change_ip pinging once more when the ping after the toggle fails.
change_ip_retry(cd, rc1, body1, rc2, body2) ==
    LET p1 == ping(cd, rc1)
        g1 == get_current_ip(cd, FALSE, body1)
        prev_ip == g1.ret
        en == enable_airplane_mode(cd)
        dis == disable_airplane_mode(cd)
        toggled == p1.calls \o g1.calls \o en.calls \o <<Sleep(SETTLE_DELAY)>>
                       \o dis.calls \o <<Sleep(RECONNECT_DELAY)>>
        p2 == ping(cd, rc2)
        g2 == get_current_ip(cd, FALSE, body2)
    IN  IF p1.exc # NoExc THEN Result(p1.exc, PyNone, p1.calls, cd)
        ELSE IF ~p1.ret THEN Result(NoInternet, PyNone, p1.calls, cd)
        ELSE IF g1.exc # NoExc THEN Result(g1.exc, PyNone, p1.calls \o g1.calls, cd)
        ELSE IF ~p2.ret
             THEN Result(NoInternet, PyNone, toggled \o p2.calls \o p2.calls, cd)
        ELSE IF g2.exc # NoExc
             THEN Result(g2.exc, PyNone, toggled \o p2.calls \o g2.calls, cd)
        ELSE Result(NoExc, g2.ret # prev_ip, toggled \o p2.calls \o g2.calls, cd)

\* change_ip, given what the device answers to the first ping, the first IP
\* lookup, the second ping and the second IP lookup.
change_ip(cd, rc1, body1, rc2, body2) ==
    LET p1 == ping(cd, rc1)
        g1 == get_current_ip(cd, FALSE, body1)
        prev_ip == g1.ret
        en == enable_airplane_mode(cd)
        dis == disable_airplane_mode(cd)
        toggled == p1.calls \o g1.calls \o en.calls \o <<Sleep(SETTLE_DELAY)>>
                       \o dis.calls \o <<Sleep(RECONNECT_DELAY)>>
        p2 == ping(cd, rc2)
        g2 == get_current_ip(cd, FALSE, body2)
    IN  IF p1.exc # NoExc THEN Result(p1.exc, PyNone, p1.calls, cd)
        ELSE IF ~p1.ret THEN Result(NoInternet, PyNone, p1.calls, cd)
        ELSE IF g1.exc # NoExc THEN Result(g1.exc, PyNone, p1.calls \o g1.calls, cd)
        ELSE IF en.exc # NoExc
             THEN Result(en.exc, PyNone, p1.calls \o g1.calls \o en.calls, cd)
        ELSE IF dis.exc # NoExc
             THEN Result(dis.exc, PyNone,
                         p1.calls \o g1.calls \o en.calls \o <<Sleep(SETTLE_DELAY)>>
                             \o dis.calls, cd)
        ELSE IF p2.exc # NoExc THEN Result(p2.exc, PyNone, toggled \o p2.calls, cd)
        ELSE IF ~p2.ret THEN Result(NoInternet, PyNone, toggled \o p2.calls, cd)
        ELSE IF g2.exc # NoExc
             THEN Result(g2.exc, PyNone, toggled \o p2.calls \o g2.calls, cd)
        ELSE IF g2.ret = prev_ip
             THEN Result(NoExc, FALSE, toggled \o p2.calls \o g2.calls, cd)
        ELSE Result(NoExc, TRUE, toggled \o p2.calls \o g2.calls, cd)

(***************************************************************************)
(* Environment.                                                            *)
(***************************************************************************)
RECURSIVE SeqsUpTo(_, _)
\* All sequences over S of length at most n.
SeqsUpTo(S, n) ==
    IF n = 0 THEN {<<>>}
    ELSE LET shorter == SeqsUpTo(S, n - 1)
         IN  shorter \cup {Append(s, x) : s \in shorter, x \in S}

Chars == {"a", ":", " ", "\n"}

\* Every text adb may print within the bound, with and without the header.
AllStdouts ==
    {pre \o body : pre \in {HEADER, <<>>}, body \in SeqsUpTo(Chars, MaxStdout)}

LINE_A == <<"A", " ", "d", " ", "u", ":", "1", " ", "t", ":", "1", "\n">>
LINE_B == <<"B", " ", "d", " ", "u", ":", "2", " ", "t", ":", "2", "\n">>

\* A few outputs for the protocol-level specification: no device, one, two.
SampleStdouts ==
    {HEADER \o <<"\n">>,
     HEADER \o LINE_A \o <<"\n">>,
     HEADER \o LINE_B \o LINE_A \o <<"\n">>}

SampleDevices ==
    {Device(<<"1">>, <<"A">>), Device(<<"9">>, <<"Z">>)}

\* What the IP service may answer: a JSON object given by its members in the
\* order sent (a key may repeat), or a bare JSON string.
ObjDoc(fields) == [t |-> "obj", lit |-> "", fields |-> fields]
StrDoc(lit) == [t |-> "str", lit |-> lit, fields |-> <<>>]

RECURSIVE DumpMembers(_)
DumpMembers(fields) ==
    IF fields = <<>> THEN <<>>
    ELSE <<Head(fields)[1], ":", Head(fields)[2]>>
             \o (IF Len(fields) = 1 THEN <<>> ELSE <<",">>)
             \o DumpMembers(Tail(fields))

\* The document as the text the service sends.
Dump(doc) ==
    IF doc.t = "str" THEN <<doc.lit>>
    ELSE <<"{">> \o DumpMembers(doc.fields) \o <<"}">>

\* A body cut short in transit: its last token is missing.
Truncated(body) == SubSeq(body, 1, Len(body) - 1)

Members ==
    {<<"query", "1.2.3.4">>, <<"query", "5.6.7.8">>, <<"country", "X">>,
     <<"status", "fail">>}

Docs ==
    {ObjDoc(fs) : fs \in SeqsUpTo(Members, MaxFields)}
        \cup {StrDoc("query"), StrDoc("1.2.3.4")}

\* Every body within the bound: whole documents and documents cut short.
AllBodies == {Dump(d) : d \in Docs} \cup {Truncated(Dump(d)) : d \in Docs}

\* A few bodies for the protocol-level specification.
SampleBodies ==
    {Dump(ObjDoc(<<<<"query", "1.2.3.4">>>>)),
     Dump(ObjDoc(<<<<"query", "1.2.3.4">>, <<"country", "X">>>>)),
     Dump(ObjDoc(<<<<"query", "5.6.7.8">>>>)),
     Dump(ObjDoc(<<<<"status", "fail">>>>)),
     Truncated(Dump(ObjDoc(<<<<"query", "1.2.3.4">>>>))),
     Dump(StrDoc("1.2.3.4"))}

ReturnCodes == {0, 1}
AirplaneStdouts == {<<"Enable">>, <<"Enable", "\n">>, <<"Disable">>, <<>>}
Ports == {"8080", "9090"}

(***************************************************************************)
(* Actions: one per method.                                                *)
(***************************************************************************)
Called(name, a, r) ==
    /\ op' = name
    /\ args' = a
    /\ exc' = r.exc
    /\ ret' = r.ret
    /\ calls' = r.calls
    /\ current_device' = r.cur
    /\ UNCHANGED attached

Call_list_devices == Called("list_devices", <<>>, list_devices(current_device, attached))

Call_set_device == \E d \in SampleDevices : Called("set_device", <<d>>, set_device(current_device, d))

Call_get_device == Called("get_device", <<>>, get_device(current_device))

Call_set_default_device ==
    Called("set_default_device", <<>>, set_default_device(current_device, attached))

Call_check_airplane_mode ==
    \E stdout \in AirplaneStdouts :
        Called("check_airplane_mode", <<>>, check_airplane_mode(current_device, stdout))

Call_enable_airplane_mode ==
    Called("enable_airplane_mode", <<>>, enable_airplane_mode(current_device))

Call_disable_airplane_mode ==
    Called("disable_airplane_mode", <<>>, disable_airplane_mode(current_device))

Call_ping == \E rc \in ReturnCodes : Called("ping", <<>>, ping(current_device, rc))

Call_get_current_ip(Bodies) ==
    \E location \in BOOLEAN, body \in Bodies :
        Called("get_current_ip", <<location>>, get_current_ip(current_device, location, body))

Call_change_ip ==
    \E rc1 \in ReturnCodes, rc2 \in ReturnCodes, body1 \in SampleBodies, body2 \in SampleBodies :
        Called("change_ip", <<>>, change_ip(current_device, rc1, body1, rc2, body2))

Call_port_forward ==
    \E port_from \in Ports, port_to \in Ports :
        Called("port_forward", <<port_from, port_to>>, port_forward(current_device, port_from, port_to))

\* __init__: no current device.
Constructed ==
    /\ current_device = None
    /\ op = "init"
    /\ args = <<>>
    /\ exc = NoExc
    /\ ret = PyNone
    /\ calls = <<>>

Init ==
    /\ Constructed
    /\ attached \in SampleStdouts

Next ==
    \/ Call_list_devices
    \/ Call_set_device
    \/ Call_get_device
    \/ Call_check_airplane_mode
    \/ Call_enable_airplane_mode
    \/ Call_disable_airplane_mode
    \/ Call_ping
    \/ Call_get_current_ip(SampleBodies)
    \/ Call_set_default_device
    \/ Call_change_ip
    \/ Call_port_forward

Spec == Init /\ [][Next]_vars

\* The device list parser on every output within the bound.
InitDevices ==
    /\ attached \in AllStdouts
    /\ op = "init"
    /\ args = <<>>
    /\ exc = NoExc
    /\ ret = PyNone
    /\ calls = <<>>
    /\ current_device \in {None} \cup {Some(d) : d \in SampleDevices}

NextDevices ==
    \/ Call_list_devices
    \/ Call_set_default_device

SpecDevices == InitDevices /\ [][NextDevices]_vars

\* The IP lookup on every body within the bound.
InitLookup ==
    /\ attached \in SampleStdouts
    /\ op = "init"
    /\ args = <<>>
    /\ exc = NoExc
    /\ ret = PyNone
    /\ calls = <<>>
    /\ current_device \in {None} \cup {Some(d) : d \in SampleDevices}

NextLookup == Call_get_current_ip(AllBodies)

SpecLookup == InitLookup /\ [][NextLookup]_vars

(***************************************************************************)
(* Vocabulary of the properties.                                           *)
(***************************************************************************)
IsRun(c, argv) == c.kind = "run" /\ c.argv = argv
IsPing(c) == IsRun(c, <<"shell", "ping", "-c", "4", "-w", "10", "www.google.com">>)
IsLookup(c) == IsRun(c, <<"shell", "curl", "-s", "ip-api.com/json/">>)
IsEnable(c) == IsRun(c, <<"shell", "cmd", "connectivity", "airplane-mode", "enable">>)
IsDisable(c) == IsRun(c, <<"shell", "cmd", "connectivity", "airplane-mode", "disable">>)
IsAirplaneCommand(c) == IsEnable(c) \/ IsDisable(c)
IsWait(c, secs) == c.kind = "sleep" /\ c.secs = secs

Pings == SelectSeq(calls, IsPing)
Lookups == SelectSeq(calls, IsLookup)
AirplaneCommands == SelectSeq(calls, IsAirplaneCommand)

NoDeviceSelectedError == [type |-> "ValueError", msg |-> "Need init current device!"]
NoDeviceError == [type |-> "ValueError", msg |-> "Devices not connected!"]
ConnectivityError == [type |-> "RuntimeError", msg |-> "Internet on mobile don't work!"]
MalformedResponseErrors == {"JSONDecodeError", "KeyError", "TypeError"}

DeviceScoped ==
    {"check_airplane_mode", "enable_airplane_mode", "disable_airplane_mode", "ping",
     "get_current_ip", "port_forward", "change_ip"}

\* The document a body is the complete text of, if there is one.
IsDocument(body) == \E d \in Docs : Dump(d) = body
DocumentOf(body) == CHOOSE d \in Docs : Dump(d) = body

\* The keys of a document, and the value its last member with key k carries.
KeysOf(d) == {d.fields[i][1] : i \in DOMAIN d.fields}
LastValue(d, k) ==
    LET at == {i \in DOMAIN d.fields : d.fields[i][1] = k}
    IN  d.fields[CHOOSE i \in at : \A j \in at : j <= i][2]

\* The record a document denotes.
RecordOf(d) ==
    IF d.t = "str" THEN [kind |-> "str", s |-> d.lit, items |-> EmptyDict]
    ELSE [kind |-> "obj", s |-> "",
          items |-> [k \in KeysOf(d) |->
                        [kind |-> "str", s |-> LastValue(d, k), items |-> EmptyDict]]]

HasQuery(body) ==
    IsDocument(body) /\ DocumentOf(body).t = "obj" /\ "query" \in KeysOf(DocumentOf(body))
QueryOf(body) == LastValue(DocumentOf(body), "query")

\* A change_ip whose two pings succeeded and whose two lookups gave an IP.
BothPingsAndLookupsSucceed ==
    /\ op = "change_ip"
    /\ Len(Pings) >= 2 /\ Pings[1].rc = 0 /\ Pings[2].rc = 0
    /\ Len(Lookups) >= 2 /\ HasQuery(Lookups[1].stdout) /\ HasQuery(Lookups[2].stdout)

\* The last call was a get_current_ip that reached the IP service.
LookupAnswered == op = "get_current_ip" /\ current_device # None

\* The text `adb devices -l` prints, read by the positions of its newlines.
HasHeader(s) == Len(s) >= Len(HEADER) /\ SubSeq(s, 1, Len(HEADER)) = HEADER
AfterHeader(s) == SubSeq(s, Len(HEADER) + 1, Len(s))

\* The positions of the newlines of b, and the line each one ends.
Newlines(b) == {p \in DOMAIN b : b[p] = "\n"}
LineStart(b, p) ==
    LET before == {q \in Newlines(b) : q < p}
    IN  IF before = {} THEN 1 ELSE 1 + CHOOSE q \in before : \A r \in before : r <= q
LineEndingAt(b, p) == SubSeq(b, LineStart(b, p), p - 1)

\* serial, a blank, the rest: what `adb devices -l` prints for a device.
IsDeviceLine(l) == l # <<>> /\ l[1] # " " /\ \E i \in DOMAIN l : l[i] = " "
SerialToken(l) ==
    LET blank == CHOOSE i \in DOMAIN l : l[i] = " " /\ \A j \in 1..(i - 1) : l[j] # " "
    IN  SubSeq(l, 1, blank - 1)

WellFormed(s) ==
    /\ HasHeader(s)
    /\ LET b == AfterHeader(s)
       IN  /\ b = <<>> \/ b[Len(b)] = "\n"
           /\ \A p \in Newlines(b) :
                  \/ IsDeviceLine(LineEndingAt(b, p))
                  \/ p = Len(b) /\ LineEndingAt(b, p) = <<>>

DeviceLineEnds(s) ==
    {p \in Newlines(AfterHeader(s)) : IsDeviceLine(LineEndingAt(AfterHeader(s), p))}

\* The k-th device line of s.
DeviceLine(s, k) ==
    LET ends == DeviceLineEnds(s)
        p == CHOOSE e \in ends : Cardinality({q \in ends : q < e}) = k - 1
    IN  LineEndingAt(AfterHeader(s), p)

(***************************************************************************)
(* C1: every device-scoped method called while current_device is None      *)
(* raises ValueError("Need init current device!") and has run no           *)
(* subprocess.                                                             *)
(***************************************************************************)
C1_NoDeviceNoSubprocess ==
    [][(current_device = None /\ op' \in DeviceScoped)
          => (exc' = NoDeviceSelectedError /\ calls' = <<>>)]_vars

C1_Witness ==
    /\ op = "change_ip"
    /\ current_device = None
    /\ exc = NoDeviceSelectedError
    /\ calls = <<>>

(***************************************************************************)
(* C2: when the first ping of change_ip fails, change_ip raises the        *)
(* RuntimeError and that ping is the only subprocess of the call.          *)
(***************************************************************************)
C2_FirstPingFails ==
    (op = "change_ip" /\ calls # <<>> /\ IsPing(calls[1]) /\ calls[1].rc # 0)
        => (exc = ConnectivityError /\ Len(calls) = 1)

C2_Witness ==
    /\ op = "change_ip"
    /\ Len(calls) = 1
    /\ IsPing(calls[1])
    /\ calls[1].rc # 0
    /\ exc = ConnectivityError

(***************************************************************************)
(* C3: a change_ip whose two pings succeed and whose two lookups parse     *)
(* makes exactly these steps, in this order, all on the selected device:   *)
(* ping, lookup, enable, wait 5 s, disable, wait 10 s, ping, lookup.       *)
(***************************************************************************)
C3_StepOrder ==
    BothPingsAndLookupsSucceed =>
        /\ Len(calls) = 8
        /\ IsPing(calls[1])
        /\ IsLookup(calls[2])
        /\ IsEnable(calls[3])
        /\ IsWait(calls[4], 5)
        /\ IsDisable(calls[5])
        /\ IsWait(calls[6], 10)
        /\ IsPing(calls[7])
        /\ IsLookup(calls[8])
        /\ \A i \in {1, 2, 3, 5, 7, 8} : calls[i].serial = <<current_device[1].id>>

C3_Witness ==
    /\ BothPingsAndLookupsSucceed
    /\ exc = NoExc
    /\ Len(calls) = 8
    /\ IsEnable(calls[3])
    /\ IsDisable(calls[5])

(***************************************************************************)
(* C4: when both pings succeed and both lookups return an IP, change_ip    *)
(* returns TRUE exactly when the second IP differs from the first, and     *)
(* returns FALSE (no exception) when they are equal.                       *)
(***************************************************************************)
C4_ReturnsWhetherChanged ==
    BothPingsAndLookupsSucceed =>
        /\ exc = NoExc
        /\ ret = (QueryOf(Lookups[2].stdout) # QueryOf(Lookups[1].stdout))

C4_Witness ==
    /\ BothPingsAndLookupsSucceed
    /\ exc = NoExc
    /\ ret = FALSE
    /\ Lookups[1].stdout # Lookups[2].stdout
    /\ QueryOf(Lookups[2].stdout) = QueryOf(Lookups[1].stdout)

C6_SecondPingFails ==
    (op = "change_ip" /\ Len(Pings) >= 2 /\ Pings[1].rc = 0 /\ Pings[2].rc # 0)
        => /\ exc = ConnectivityError
           /\ Len(Pings) = 2
           /\ calls[Len(calls)] = Pings[2]
           /\ Len(Lookups) = 1
           /\ Len(AirplaneCommands) = 2

C6_Witness ==
    /\ op = "change_ip"
    /\ Len(Pings) = 2
    /\ Pings[1].rc = 0
    /\ Pings[2].rc # 0
    /\ exc = ConnectivityError

(***************************************************************************)
(* C7: set_default_device runs list_devices; on an empty list it raises    *)
(* ValueError("Devices not connected!"), otherwise current_device is the   *)
(* first device of that list, whatever it was before.                      *)
(***************************************************************************)
C7_SelectsFirst ==
    op = "set_default_device" =>
        LET devices == list_devices(None, attached).ret
        IN  /\ calls = <<Run(None, <<"devices", "-l">>, attached, 0)>>
            /\ IF devices = <<>>
               THEN exc = NoDeviceError
               ELSE exc = NoExc /\ current_device = <<devices[1]>>

C7_Witness ==
    /\ op = "set_default_device"
    /\ exc = NoExc
    /\ Len(list_devices(None, attached).ret) = 2
    /\ list_devices(None, attached).ret[1] # list_devices(None, attached).ret[2]
    /\ current_device = <<list_devices(None, attached).ret[1]>>

(***************************************************************************)
(* C8: on the header line followed by N device lines (and possibly the     *)
(* blank line adb ends its output with), list_devices returns N devices,   *)
(* in the order of the lines, each with the non-empty token before the     *)
(* line's first blank as its id.                                           *)
(***************************************************************************)
C8_OneDevicePerLine ==
    (op = "list_devices" /\ WellFormed(attached)) =>
        /\ exc = NoExc
        /\ Len(ret) = Cardinality(DeviceLineEnds(attached))
        /\ \A k \in DOMAIN ret :
               /\ ret[k].id # <<>>
               /\ ret[k].id = SerialToken(DeviceLine(attached, k))

C8_Witness ==
    /\ op = "list_devices"
    /\ WellFormed(attached)
    /\ Cardinality(DeviceLineEnds(attached)) = 2
    /\ Len(ret) = 2
    /\ ret[1].id # ret[2].id

(***************************************************************************)
(* C9: current_device is None after construction and changes only in       *)
(* set_device and in a set_default_device that does not raise.             *)
(***************************************************************************)
C9_OnlySelectionChangesDevice ==
    /\ current_device = None
    /\ [][current_device' # current_device
             => \/ op' = "set_device"
                \/ op' = "set_default_device" /\ exc' = NoExc]_vars

C9_Witness ==
    /\ op = "set_default_device"
    /\ exc = NoDeviceError
    /\ current_device # None

(***************************************************************************)
(* C10, as stated: get_current_ip with a device selected raises, for both  *)
(* values of `location`, when the body is not JSON or is JSON without      *)
(* "query"; on an object with "query" it returns the value of "query" for  *)
(* location = FALSE and the whole record for location = TRUE.              *)
(***************************************************************************)
C10_AsStated ==
    LookupAnswered =>
        LET body == calls[1].stdout
            location == args[1]
        IN  IF HasQuery(body)
            THEN /\ exc = NoExc
                 /\ ret = IF location THEN RecordOf(DocumentOf(body))
                          ELSE [kind |-> "str", s |-> QueryOf(body), items |-> EmptyDict]
            ELSE exc.type \in MalformedResponseErrors

(***************************************************************************)
(* C10, amended: a body that is not JSON raises for both values of         *)
(* `location`; JSON without "query" raises only for location = FALSE, and  *)
(* for location = TRUE every JSON body is returned decoded, with or        *)
(* without "query"; on an object with "query", location = FALSE returns    *)
(* the value of "query".                                                   *)
(***************************************************************************)
C10_Amended ==
    LookupAnswered =>
        LET body == calls[1].stdout
            location == args[1]
        IN  IF ~IsDocument(body) THEN exc.type = "JSONDecodeError"
            ELSE IF location THEN exc = NoExc /\ ret = RecordOf(DocumentOf(body))
            ELSE IF HasQuery(body)
                 THEN /\ exc = NoExc
                      /\ ret = [kind |-> "str", s |-> QueryOf(body), items |-> EmptyDict]
            ELSE exc.type \in {"KeyError", "TypeError"}

C10_Witness ==
    /\ LookupAnswered
    /\ args[1] = TRUE
    /\ IsDocument(calls[1].stdout)
    /\ ~HasQuery(calls[1].stdout)
    /\ exc = NoExc
    /\ ret = RecordOf(DocumentOf(calls[1].stdout))

====
